---- MODULE Spec2Model ----
(***************************************************************************)
(* Model of the azurerm_data_factory_linked_service_azure_sql_database     *)
(* resource: the Create/Update, Read and Delete handlers, the ResourceData *)
(* they read and write, and the remote Data Factory linked-service API     *)
(* they call.  Every remote call is one step, so that handlers of two      *)
(* ResourceData instances and other writers of the same Data Factory can   *)
(* interleave between the calls of one handler.                            *)
(***************************************************************************)
EXTENDS Naturals, Sequences, FiniteSets, TLC

\* Number of handler invocations the framework makes in one behaviour.
MaxOps == 2
\* Number of changes other actors make to the remote linked service.
MaxExt == 1

\* Two ResourceData instances addressing the same linked service.
Res == {"d1", "d2"}

\* A Go nil pointer, and a non-nil pointer to v (utils.String and friends).
Nil == <<>>
Some(v) == <<v>>
Deref(p) == IF p = Nil THEN "" ELSE p[1]

\* The one linked service every instance addresses.
TheName == "ls1"
TheFactory == "df1"
TheGroup == "rg1"
TheId == "/resourceGroups/rg1/factories/df1/linkedservices/ls1"

\* Resource IDs the framework can hand to a handler: none, a well-formed one,
\* and an imported string that is no linked-service ID.
IDs == {"", TheId, "not-an-id"}

\* datafactory.TypeAzureSQLDatabase and some other linked-service type.
TypeAzureSQLDatabase == "AzureSqlDatabase"
TypeOther == "AzureBlobStorage"
TypeSecureString == "SecureString"
TypeAzureKeyVaultSecret == "AzureKeyVaultSecret"

VARIABLES
    remote,    \* name -> LinkedServiceResource held by the Data Factory
    id,        \* d.Id() of each instance
    attrs,     \* the attributes of each instance (d.Get / d.Set)
    cfg,       \* the configuration the current Create/Update was invoked with
    isNew,     \* d.IsNewResource()
    pc,        \* where each instance's handler stands
    op,        \* the handler last invoked on each instance
    result,    \* what that handler returned ("running" until it returns)
    log,       \* the remote calls and SetId calls of that handler, in order
    written,   \* the attributes that handler passed to d.Set
    prev,      \* handler and result of the invocation before
    nops,      \* handler invocations so far
    next       \* changes by other actors so far

vars == <<remote, id, attrs, cfg, isNew, pc, op, result, log, written, prev, nops, next>>

----------------------------------------------------------------------------
\* The schema: attribute values.

KeyVaultPasswordCfg == <<[linked_service_name |-> "kv_cfg", secret_name |-> "secret_cfg"]>>

\* The state of an instance that holds no attribute (schema defaults).
ZeroAttrs ==
    [ name |-> "", resource_group_name |-> "", data_factory_name |-> "",
      connection_string |-> "", description |-> "", key_vault_password |-> <<>>,
      use_managed_identity |-> FALSE, service_principal_id |-> "",
      service_principal_key |-> "", tenant_id |-> "",
      integration_runtime_name |-> "", parameters |-> {}, annotations |-> <<>>,
      additional_properties |-> {} ]

\* A configuration: name, data factory, resource group and connection string
\* are required; the rest is optional.  service_principal_id and
\* service_principal_key are RequiredWith each other.  The optional attributes
\* other than the authentication ones are configured all together or not at all.
\* use_managed_identity together with a service principal, which ConflictsWith
\* rejects before a handler runs, is kept: the handlers do not rely on it.
Config(umi, sp, opt) ==
    [ name |-> TheName, resource_group_name |-> TheGroup, data_factory_name |-> TheFactory,
      connection_string |-> "cs_cfg",
      description |-> IF opt THEN "desc_cfg" ELSE "",
      key_vault_password |-> IF opt THEN KeyVaultPasswordCfg ELSE <<>>,
      use_managed_identity |-> umi,
      service_principal_id |-> IF sp THEN "sp_cfg" ELSE "",
      service_principal_key |-> IF sp THEN "key_cfg" ELSE "",
      tenant_id |-> IF opt THEN "tenant_cfg" ELSE "",
      integration_runtime_name |-> IF opt THEN "ir_cfg" ELSE "",
      parameters |-> IF opt THEN {<<"p", "v_cfg">>} ELSE {},
      annotations |-> IF opt THEN <<"a_cfg">> ELSE <<>>,
      additional_properties |-> IF opt THEN {<<"x", "y_cfg">>} ELSE {} ]

Configs == { Config(umi, sp, opt) : umi \in BOOLEAN, sp \in BOOLEAN, opt \in BOOLEAN }

\* d.GetOk: the value is set when it is not the zero value of its type.
GetOkString(v) == v # ""


----------------------------------------------------------------------------
\* Helpers of the datafactory package the handlers call.

\* parse.LinkedServiceID: the resource group, factory and name of an ID.
LinkedServiceIDOk(i) == i = TheId
LinkedServiceID(i) == [ResourceGroup |-> TheGroup, FactoryName |-> TheFactory, Name |-> TheName]

expandAzureKeyVaultPassword(input) ==
    IF input = <<>> THEN Nil
    ELSE Some([Type |-> TypeAzureKeyVaultSecret,
               Store |-> Some(input[1].linked_service_name),
               SecretName |-> input[1].secret_name])

flattenAzureKeyVaultPassword(ref) ==
    <<[linked_service_name |-> Deref(ref.Store), secret_name |-> ref.SecretName]>>

expandDataFactoryParameters(input) == Some(input)

flattenDataFactoryParameters(input) == IF input = Nil THEN {} ELSE input[1]

flattenDataFactoryAnnotations(input) == IF input = Nil THEN <<>> ELSE input[1]

expandDataFactoryLinkedServiceIntegrationRuntime(v) == Some([ReferenceName |-> Some(v)])

----------------------------------------------------------------------------
\* Create/Update: the request built from the attributes of d.

\* Mutant: the service principal sent whatever use_managed_identity says.
sqlDatabasePropertiesAlwaysPrincipal(d) ==
    [ ConnectionString |->
          IF GetOkString(d.connection_string)
          THEN Some([Value |-> d.connection_string, Type |-> TypeSecureString])
          ELSE Nil,
      Tenant |-> Some(d.tenant_id),
      ServicePrincipalID |-> Some(d.service_principal_id),
      ServicePrincipalKey |->
          Some([Value |-> d.service_principal_key, Type |-> TypeSecureString]),
      Password |->
          IF d.key_vault_password # <<>>
          THEN expandAzureKeyVaultPassword(d.key_vault_password)
          ELSE Nil ]

sqlDatabaseProperties(d) ==
    [ ConnectionString |->
          IF GetOkString(d.connection_string)
          THEN Some([Value |-> d.connection_string, Type |-> TypeSecureString])
          ELSE Nil,
      Tenant |-> Some(d.tenant_id),
      ServicePrincipalID |->
          IF d.use_managed_identity THEN Nil ELSE Some(d.service_principal_id),
      ServicePrincipalKey |->
          IF d.use_managed_identity THEN Nil
          ELSE Some([Value |-> d.service_principal_key, Type |-> TypeSecureString]),
      Password |->
          IF d.key_vault_password # <<>>
          THEN expandAzureKeyVaultPassword(d.key_vault_password)
          ELSE Nil ]

azureSQLDatabaseLinkedService(d) ==
    [ Type |-> TypeAzureSQLDatabase,
      Description |-> Some(d.description),
      TypeProperties |-> sqlDatabaseProperties(d),
      Parameters |->
          IF d.parameters # {} THEN expandDataFactoryParameters(d.parameters) ELSE Nil,
      ConnectVia |->
          IF GetOkString(d.integration_runtime_name)
          THEN expandDataFactoryLinkedServiceIntegrationRuntime(d.integration_runtime_name)
          ELSE Nil,
      AdditionalProperties |->
          IF d.additional_properties # {} THEN d.additional_properties ELSE {},
      Annotations |-> IF d.annotations # <<>> THEN Some(d.annotations) ELSE Nil ]

linkedService(d) == [Properties |-> azureSQLDatabaseLinkedService(d)]

----------------------------------------------------------------------------
\* The remote API (client.Get / CreateOrUpdate / Delete) and other writers.

\* A record another actor may store under the same name.
ExtRecord(type, sp, tn, opt, pw) ==
    [ Type |-> type,
      Description |-> IF opt THEN Some("desc_ext") ELSE Nil,
      TypeProperties |->
        [ ConnectionString |-> Some([Value |-> "cs_ext", Type |-> TypeSecureString]),
          Tenant |-> IF tn THEN Some("tenant_ext") ELSE Nil,
          ServicePrincipalID |-> IF sp THEN Some("sp_ext") ELSE Nil,
          ServicePrincipalKey |->
              IF sp THEN Some([Value |-> "key_ext", Type |-> TypeSecureString]) ELSE Nil,
          Password |->
              CASE pw = "kv" -> Some([Type |-> TypeAzureKeyVaultSecret,
                                      Store |-> Some("kv_ext"), SecretName |-> "secret_ext"])
                [] pw = "secure" -> Some([Type |-> TypeSecureString,
                                          Store |-> Nil, SecretName |-> ""])
                [] OTHER -> Nil ],
      Parameters |-> IF opt THEN Some({<<"p", "v_ext">>}) ELSE Nil,
      ConnectVia |-> IF opt THEN Some([ReferenceName |-> Some("ir_ext")]) ELSE Nil,
      AdditionalProperties |-> IF opt THEN {<<"x", "y_ext">>} ELSE {},
      Annotations |-> IF opt THEN Some(<<"a_ext">>) ELSE Nil ]

\* A bare record, a full one, one with a plain (not key-vault) password, each
\* with and without a service principal, and a linked service of another type.
ExtRecords ==
    { ExtRecord(TypeAzureSQLDatabase, sp, FALSE, FALSE, "none") : sp \in BOOLEAN }
    \cup { ExtRecord(TypeAzureSQLDatabase, sp, TRUE, TRUE, "kv") : sp \in BOOLEAN }
    \cup { ExtRecord(TypeAzureSQLDatabase, sp, TRUE, FALSE, "secure") : sp \in BOOLEAN }
    \cup { ExtRecord(TypeOther, FALSE, FALSE, TRUE, "none") }

\* The ID field of a Get response: the service's ID, an empty ID, or none.
RespIDs == {Some(TheId), Some(""), Nil}

Exists(n) == n \in DOMAIN remote

\* client.Get: the outcomes of one call.
GetOutcomes(n) ==
    IF Exists(n)
    THEN { [kind |-> "ok", ID |-> i, Name |-> Some(n), Properties |-> remote[n]] : i \in RespIDs }
         \cup { [kind |-> "error"] }
    ELSE { [kind |-> "notfound"], [kind |-> "error"] }

\* utils.ResponseWasNotFound
ResponseWasNotFound(resp) == resp.kind = "notfound"

Put(n, rec) == [m \in DOMAIN remote \cup {n} |-> IF m = n THEN rec ELSE remote[m]]
Remove(n) == [m \in DOMAIN remote \ {n} |-> remote[m]]


----------------------------------------------------------------------------
\* Read: what a successful Get writes into d.

\* Properties.AsAzureSQLDatabaseLinkedService()
AsAzureSQLDatabaseLinkedService(props) == props.Type = TypeAzureSQLDatabase

\* password.AsAzureKeyVaultSecretReference()
AsAzureKeyVaultSecretReference(password) == password.Type = TypeAzureKeyVaultSecret

\* Mutant: the connection string of the response written back as well.
ReadHeadWithConnectionString(d, resp, parsed) ==
    [d EXCEPT !.name = Deref(resp.Name),
              !.resource_group_name = parsed.ResourceGroup,
              !.data_factory_name = parsed.FactoryName,
              !.connection_string =
                  IF resp.Properties.TypeProperties.ConnectionString = Nil THEN ""
                  ELSE resp.Properties.TypeProperties.ConnectionString[1].Value]

\* The d.Set calls up to the classification of the response.
ReadHead(d, resp, parsed) ==
    [d EXCEPT !.name = Deref(resp.Name),
              !.resource_group_name = parsed.ResourceGroup,
              !.data_factory_name = parsed.FactoryName]

HeadWritten == {"name", "resource_group_name", "data_factory_name"}

\* The d.Set calls for a response classified as AzureSQLDatabase.
ReadBody(d, sql) ==
    LET tp == sql.TypeProperties
        d1 == IF tp.Tenant # Nil THEN [d EXCEPT !.tenant_id = tp.Tenant[1]] ELSE d
        d2 == IF tp.ServicePrincipalID # Nil
              THEN [d1 EXCEPT !.service_principal_id = tp.ServicePrincipalID[1],
                              !.use_managed_identity = FALSE]
              ELSE [d1 EXCEPT !.use_managed_identity = TRUE]
        d3 == [d2 EXCEPT !.additional_properties = sql.AdditionalProperties,
                         !.description = Deref(sql.Description)]
        d4 == IF tp.Password # Nil /\ AsAzureKeyVaultSecretReference(tp.Password[1])
              THEN [d3 EXCEPT !.key_vault_password = flattenAzureKeyVaultPassword(tp.Password[1])]
              ELSE d3
        d5 == [d4 EXCEPT !.annotations = flattenDataFactoryAnnotations(sql.Annotations),
                         !.parameters = flattenDataFactoryParameters(sql.Parameters)]
        d6 == IF sql.ConnectVia # Nil /\ sql.ConnectVia[1].ReferenceName # Nil
              THEN [d5 EXCEPT !.integration_runtime_name = sql.ConnectVia[1].ReferenceName[1]]
              ELSE d5
    IN  d6

BodyWritten(sql) ==
    LET tp == sql.TypeProperties IN
    (IF tp.Tenant # Nil THEN {"tenant_id"} ELSE {})
    \cup (IF tp.ServicePrincipalID # Nil
          THEN {"service_principal_id", "use_managed_identity"}
          ELSE {"use_managed_identity"})
    \cup {"additional_properties", "description"}
    \cup (IF tp.Password # Nil /\ AsAzureKeyVaultSecretReference(tp.Password[1])
          THEN {"key_vault_password"} ELSE {})
    \cup {"annotations", "parameters"}
    \cup (IF sql.ConnectVia # Nil /\ sql.ConnectVia[1].ReferenceName # Nil
          THEN {"integration_runtime_name"} ELSE {})

----------------------------------------------------------------------------
\* The framework invoking a handler on an instance, and a handler returning.

Idle(r) == pc[r] = "idle"

Invoke(r, h, at) ==
    /\ Idle(r)
    /\ nops < MaxOps
    /\ nops' = nops + 1
    /\ prev' = [prev EXCEPT ![r] = <<op[r], result[r]>>]
    /\ op' = [op EXCEPT ![r] = h]
    /\ result' = [result EXCEPT ![r] = "running"]
    /\ log' = [log EXCEPT ![r] = <<>>]
    /\ written' = [written EXCEPT ![r] = {}]
    /\ pc' = [pc EXCEPT ![r] = at]

Return(r, res) ==
    /\ pc' = [pc EXCEPT ![r] = "idle"]
    /\ result' = [result EXCEPT ![r] = res]

\* One entry of the handler's call log: the step, the call, its answer and,
\* for a Get whose ID the handler tests or a SetId, the ID it carried.
Entry(at, c, res, i) == [at |-> at, call |-> c, res |-> res, ID |-> i]

Call(r, c, res, i) == log' = [log EXCEPT ![r] = Append(@, Entry(pc[r], c, res, i))]

Call2(r, c1, res1, i1, c2, res2, i2) ==
    log' = [log EXCEPT ![r] = @ \o <<Entry(pc[r], c1, res1, i1), Entry(pc[r], c2, res2, i2)>>]

Init ==
    /\ remote = <<>>
    /\ id = [r \in Res |-> ""]
    /\ attrs = [r \in Res |-> ZeroAttrs]
    /\ cfg = [r \in Res |-> ZeroAttrs]
    /\ isNew = [r \in Res |-> FALSE]
    /\ pc = [r \in Res |-> "idle"]
    /\ op = [r \in Res |-> "none"]
    /\ result = [r \in Res |-> "none"]
    /\ log = [r \in Res |-> <<>>]
    /\ written = [r \in Res |-> {}]
    /\ prev = [r \in Res |-> <<"none", "none">>]
    /\ nops = 0
    /\ next = 0

\* schema.ImportStatePassthrough: the ID the user gives becomes d.Id() of an
\* instance that holds nothing else.
Import(r) ==
    /\ Idle(r)
    /\ id[r] = ""
    /\ \E i \in IDs \ {""} : id' = [id EXCEPT ![r] = i]
    /\ attrs' = [attrs EXCEPT ![r] = ZeroAttrs]
    /\ prev' = [prev EXCEPT ![r] = <<op[r], result[r]>>]
    /\ op' = [op EXCEPT ![r] = "Import"]
    /\ result' = [result EXCEPT ![r] = "ok"]
    /\ log' = [log EXCEPT ![r] = <<>>]
    /\ written' = [written EXCEPT ![r] = {}]
    /\ UNCHANGED <<remote, cfg, isNew, pc, nops, next>>

\* Create: a new ResourceData holding the configuration, no ID yet.
BeginCreate(r) ==
    /\ Invoke(r, "Create", "cu_check")
    /\ \E c \in Configs :
          /\ attrs' = [attrs EXCEPT ![r] = c]
          /\ cfg' = [cfg EXCEPT ![r] = c]
    /\ id' = [id EXCEPT ![r] = ""]
    /\ isNew' = [isNew EXCEPT ![r] = TRUE]
    /\ UNCHANGED <<remote, next>>

\* Update: the ResourceData of an existing resource holding the new configuration.
BeginUpdate(r) ==
    /\ id[r] # ""
    /\ Invoke(r, "Update", "cu_write")
    /\ \E c \in Configs :
          /\ attrs' = [attrs EXCEPT ![r] = c]
          /\ cfg' = [cfg EXCEPT ![r] = c]
    /\ isNew' = [isNew EXCEPT ![r] = FALSE]
    /\ UNCHANGED <<remote, id, next>>

BeginRead(r) ==
    /\ id[r] # ""
    /\ Invoke(r, "Read", "read")
    /\ isNew' = [isNew EXCEPT ![r] = FALSE]
    /\ UNCHANGED <<remote, id, attrs, cfg, next>>

BeginDelete(r) ==
    /\ id[r] # ""
    /\ Invoke(r, "Delete", "delete")
    /\ isNew' = [isNew EXCEPT ![r] = FALSE]
    /\ UNCHANGED <<remote, id, attrs, cfg, next>>


----------------------------------------------------------------------------
\* resourceDataFactoryLinkedServiceAzureSQLDatabaseCreateUpdate

\* Mutant: the emptiness test of the existing ID the wrong way round.
HasIDEmptyTest(existing) == existing.kind = "ok" /\ existing.ID # Nil /\ existing.ID[1] = ""

\* existing.ID != nil && *existing.ID != ""
HasID(existing) == existing.kind = "ok" /\ existing.ID # Nil /\ existing.ID[1] # ""

RespID(resp) == IF resp.kind = "ok" THEN resp.ID ELSE Nil

\* Mutant: a failed presence check taken for "not there".
CheckExistingAnswerIgnoreError(r, existing) ==
    /\ Call(r, "Get", existing.kind, RespID(existing))
    /\ IF HasID(existing)
       THEN Return(r, "err_import_as_exists")
       ELSE /\ pc' = [pc EXCEPT ![r] = "cu_write"]
            /\ UNCHANGED result

\* The presence check of a new resource: client.Get, then the import-as-exists test.
CheckExistingAnswer(r, existing) ==
    /\ Call(r, "Get", existing.kind, RespID(existing))
    /\ IF existing.kind = "error"
       THEN Return(r, "err_checking_presence")
       ELSE IF HasID(existing)
       THEN Return(r, "err_import_as_exists")
       ELSE /\ pc' = [pc EXCEPT ![r] = "cu_write"]
            /\ UNCHANGED result

CreateUpdateCheckExisting(r) ==
    /\ pc[r] = "cu_check"
    /\ isNew[r]
    /\ \E existing \in GetOutcomes(attrs[r].name) : CheckExistingAnswer(r, existing)
    /\ UNCHANGED <<remote, id, attrs, cfg, isNew, op, written, prev, nops, next>>

\* client.CreateOrUpdate with the request built from d; a failed call leaves
\* the remote as it was.
CreateUpdateCreateOrUpdate(r) ==
    /\ pc[r] = "cu_write"
    /\ \/ /\ remote' = Put(attrs[r].name, linkedService(attrs[r]).Properties)
          /\ Call(r, "CreateOrUpdate", "ok", Nil)
          /\ pc' = [pc EXCEPT ![r] = "cu_reread"]
          /\ UNCHANGED result
       \/ /\ Call(r, "CreateOrUpdate", "error", Nil)
          /\ Return(r, "err_creating_updating")
          /\ UNCHANGED remote
    /\ UNCHANGED <<id, attrs, cfg, isNew, op, written, prev, nops, next>>

\* Mutant: no nil-ID test, the ID of an ID-less response taken as empty.
CreateUpdateSetIdUnchecked(r, resp) ==
    /\ Call2(r, "Get", "ok", resp.ID, "SetId", "ok", Some(Deref(resp.ID)))
    /\ id' = [id EXCEPT ![r] = Deref(resp.ID)]
    /\ pc' = [pc EXCEPT ![r] = "read"]
    /\ UNCHANGED result

\* The nil-ID test on the retrieved resource and d.SetId(*resp.ID).
CreateUpdateSetId(r, resp) ==
    IF resp.ID = Nil
    THEN /\ Call(r, "Get", "ok", Nil)
         /\ Return(r, "err_cannot_read")
         /\ UNCHANGED id
    ELSE /\ Call2(r, "Get", "ok", resp.ID, "SetId", "ok", resp.ID)
         /\ id' = [id EXCEPT ![r] = resp.ID[1]]
         /\ pc' = [pc EXCEPT ![r] = "read"]
         /\ UNCHANGED result

\* The Get after the write.
CreateUpdateRetrieve(r) ==
    /\ pc[r] = "cu_reread"
    /\ \E resp \in GetOutcomes(attrs[r].name) :
          IF resp.kind # "ok"
          THEN /\ Call(r, "Get", resp.kind, Nil)
               /\ Return(r, "err_retrieving")
               /\ UNCHANGED id
          ELSE CreateUpdateSetId(r, resp)
    /\ UNCHANGED <<remote, attrs, cfg, isNew, op, written, prev, nops, next>>

----------------------------------------------------------------------------
\* resourceDataFactoryLinkedServiceAzureSQLDatabaseRead (also the tail of Create/Update)

\* Mutant: Not Found treated like any other failure of the Get.
ReadNotFoundAsError(r) ==
    /\ Call(r, "Get", "notfound", Nil)
    /\ Return(r, "err_retrieving")
    /\ UNCHANGED <<id, attrs, written>>

\* Get answered Not Found: d.SetId("") and return nil.
ReadNotFound(r) ==
    /\ Call2(r, "Get", "notfound", Nil, "SetId", "ok", Some(""))
    /\ id' = [id EXCEPT ![r] = ""]
    /\ Return(r, "ok")
    /\ UNCHANGED <<attrs, written>>

\* Mutant: a failed Get swallowed, Read returning nil.
ReadGetFailedSwallowed(r) ==
    /\ Call(r, "Get", "error", Nil)
    /\ Return(r, "ok")
    /\ UNCHANGED <<id, attrs, written>>

\* Get failed otherwise.
ReadGetFailed(r) ==
    /\ Call(r, "Get", "error", Nil)
    /\ Return(r, "err_retrieving")
    /\ UNCHANGED <<id, attrs, written>>

\* Mutant: the classification tested only after the attributes were written.
ReadClassifyFailedLate(r, resp, parsed) ==
    /\ Call(r, "Get", "ok", Nil)
    /\ attrs' = [attrs EXCEPT ![r] = ReadBody(ReadHead(@, resp, parsed), resp.Properties)]
    /\ written' = [written EXCEPT ![r] = @ \cup HeadWritten \cup BodyWritten(resp.Properties)]
    /\ Return(r, "err_classifying")
    /\ UNCHANGED id

\* The response is not an AzureSQLDatabase linked service.
ReadClassifyFailed(r, resp, parsed) ==
    /\ Call(r, "Get", "ok", Nil)
    /\ attrs' = [attrs EXCEPT ![r] = ReadHead(@, resp, parsed)]
    /\ written' = [written EXCEPT ![r] = @ \cup HeadWritten]
    /\ Return(r, "err_classifying")
    /\ UNCHANGED id

\* The response is an AzureSQLDatabase linked service.
ReadFlatten(r, resp, parsed) ==
    /\ Call(r, "Get", "ok", Nil)
    /\ attrs' = [attrs EXCEPT ![r] = ReadBody(ReadHead(@, resp, parsed), resp.Properties)]
    /\ written' = [written EXCEPT ![r] = @ \cup HeadWritten \cup BodyWritten(resp.Properties)]
    /\ Return(r, "ok")
    /\ UNCHANGED id

Read(r) ==
    /\ pc[r] = "read"
    /\ IF ~LinkedServiceIDOk(id[r])
       THEN /\ Return(r, "err_parse_id")
            /\ UNCHANGED <<id, attrs, log, written>>
       ELSE LET parsed == LinkedServiceID(id[r]) IN
            \E resp \in GetOutcomes(parsed.Name) :
              IF ResponseWasNotFound(resp) THEN ReadNotFound(r)
              ELSE IF resp.kind = "error" THEN ReadGetFailed(r)
              ELSE IF ~AsAzureSQLDatabaseLinkedService(resp.Properties)
              THEN ReadClassifyFailed(r, resp, parsed)
              ELSE ReadFlatten(r, resp, parsed)
    /\ UNCHANGED <<remote, cfg, isNew, op, prev, nops, next>>

----------------------------------------------------------------------------
\* resourceDataFactoryLinkedServiceAzureSQLDatabaseDelete

\* client.Delete: the service is removed, was not there, or the call fails.
DeleteOutcomes(n) ==
    IF Exists(n) THEN {"ok", "error"} ELSE {"ok", "notfound", "error"}

\* Mutant: Not Found returned as an error too.
DeleteResultNoNotFound(response) == IF response # "ok" THEN "err_deleting" ELSE "ok"

\* An error that is not Not Found is returned; anything else is success.
DeleteResult(response) == IF response = "error" THEN "err_deleting" ELSE "ok"

Delete(r) ==
    /\ pc[r] = "delete"
    /\ IF ~LinkedServiceIDOk(id[r])
       THEN /\ Return(r, "err_parse_id")
            /\ UNCHANGED <<remote, log>>
       ELSE LET parsed == LinkedServiceID(id[r]) IN
            \E response \in DeleteOutcomes(parsed.Name) :
              /\ Call(r, "Delete", response, Nil)
              /\ remote' = IF response = "ok" THEN Remove(parsed.Name) ELSE remote
              /\ Return(r, DeleteResult(response))
    /\ UNCHANGED <<id, attrs, cfg, isNew, op, written, prev, nops, next>>

----------------------------------------------------------------------------
\* Other actors on the same Data Factory.

ExternalWrite ==
    /\ next < MaxExt
    /\ next' = next + 1
    /\ \E rec \in ExtRecords : remote' = Put(TheName, rec)
    /\ UNCHANGED <<id, attrs, cfg, isNew, pc, op, result, log, written, prev, nops>>

ExternalDelete ==
    /\ next < MaxExt
    /\ Exists(TheName)
    /\ next' = next + 1
    /\ remote' = Remove(TheName)
    /\ UNCHANGED <<id, attrs, cfg, isNew, pc, op, result, log, written, prev, nops>>

----------------------------------------------------------------------------

\* The instance the framework drives in Spec; SpecRace drives both.
Main == {"d1"}

Handlers(r) ==
    \/ CreateUpdateCheckExisting(r)
    \/ CreateUpdateCreateOrUpdate(r)
    \/ CreateUpdateRetrieve(r)
    \/ Read(r)
    \/ Delete(r)

Next ==
    \/ \E r \in Main : Import(r)
    \/ \E r \in Main : BeginCreate(r)
    \/ \E r \in Main : BeginUpdate(r)
    \/ \E r \in Main : BeginRead(r)
    \/ \E r \in Main : BeginDelete(r)
    \/ \E r \in Main : Handlers(r)
    \/ ExternalWrite
    \/ ExternalDelete

Spec == Init /\ [][Next]_vars

\* Two runs of the plugin creating the same linked service.
NextRace ==
    \/ \E r \in Res : BeginCreate(r)
    \/ \E r \in Res : CreateUpdateCheckExisting(r)
    \/ \E r \in Res : CreateUpdateCreateOrUpdate(r)
    \/ \E r \in Res : CreateUpdateRetrieve(r)
    \/ \E r \in Res : Read(r)

SpecRace == Init /\ [][NextRace]_vars


----------------------------------------------------------------------------
\* Vocabulary of the properties.

IsError(res) == res \notin {"ok", "running", "none"}

RemoteCalls == {"Get", "CreateOrUpdate", "Delete"}

\* The log entries the step just taken by r appended.
NewCalls(r) == SubSeq(log'[r], Len(log[r]) + 1, Len(log'[r]))

\* r took the handler step that stands at label `at`.
Stepped(r, at) == pc[r] = at /\ pc'[r] # at

\* The answer of the remote call that step made.
Answered(r, c, res) ==
    /\ NewCalls(r) # <<>>
    /\ NewCalls(r)[1].call = c
    /\ NewCalls(r)[1].res = res

Finished(r, h) == op[r] \in h /\ pc[r] = "idle" /\ result[r] # "none"

Logged(r, at, c, res) ==
    \E i \in 1..Len(log[r]) :
        log[r][i].at = at /\ log[r][i].call = c /\ log[r][i].res = res

----------------------------------------------------------------------------
\* C1: when Read's Get answers Not Found, Read clears the resource ID, returns
\* no error and writes no attribute; when the Get fails in any other way, Read
\* returns an error and leaves the resource ID as it was.
C1_ReadNotFoundClearsId ==
    [][\A r \in Res :
          Stepped(r, "read") =>
            /\ Answered(r, "Get", "notfound") =>
                 /\ id'[r] = ""
                 /\ result'[r] = "ok"
                 /\ written'[r] = written[r]
                 /\ attrs'[r] = attrs[r]
            /\ Answered(r, "Get", "error") =>
                 /\ IsError(result'[r])
                 /\ id'[r] = id[r]]_vars

\* A Read of an instance that held attributes found the service gone.
C1_Witness ==
    \E r \in Res :
        /\ Finished(r, {"Read"})
        /\ Logged(r, "read", "Get", "notfound")
        /\ result[r] = "ok"
        /\ id[r] = ""
        /\ attrs[r].connection_string = "cs_cfg"
        /\ written[r] = {}


----------------------------------------------------------------------------
\* C2: Delete of a well-formed resource ID returns success when the remote
\* removed the linked service and when the remote answered Not Found, the
\* linked service is absent afterwards, and Delete returns an error exactly
\* when the remote Delete failed in another way; so a second Delete right
\* after a successful one succeeds too unless that remote call fails.
C2_DeleteIdempotent ==
    [][\A r \in Res :
          (Stepped(r, "delete") /\ LinkedServiceIDOk(id[r])) =>
            /\ Len(NewCalls(r)) = 1
            /\ NewCalls(r)[1].call = "Delete"
            /\ NewCalls(r)[1].res \in {"ok", "notfound"} =>
                 /\ result'[r] = "ok"
                 /\ TheName \notin DOMAIN remote'
            /\ IsError(result'[r]) <=> NewCalls(r)[1].res = "error"]_vars

\* A second Delete in a row, answered Not Found, after one that succeeded.
C2_Witness ==
    \E r \in Res :
        /\ Finished(r, {"Delete"})
        /\ prev[r] = <<"Delete", "ok">>
        /\ log[r] = <<Entry("delete", "Delete", "notfound", Nil)>>
        /\ result[r] = "ok"
        /\ ~Exists(TheName)

----------------------------------------------------------------------------
\* The presence check of r got a linked service with a non-empty ID.
C3_FoundInLog(r) ==
    /\ log[r] # <<>>
    /\ log[r][1].at = "cu_check"
    /\ log[r][1].res = "ok"
    /\ log[r][1].ID \notin {Nil, Some("")}

\* C3: a Create whose presence check finds the linked service with a non-empty
\* ID returns the import-as-exists error without calling CreateOrUpdate, without
\* setting the resource ID and without changing the remote; a Create whose
\* presence check answers Not Found goes on to CreateOrUpdate.
C3_CreateRefusesExisting ==
    /\ [](\A r \in Res :
            /\ C3_FoundInLog(r) =>
                 /\ pc[r] = "idle"
                 /\ result[r] = "err_import_as_exists"
                 /\ Len(log[r]) = 1
                 /\ id[r] = ""
            /\ Logged(r, "cu_check", "Get", "notfound") =>
                 \/ pc[r] = "cu_write" /\ result[r] = "running"
                 \/ Len(log[r]) >= 2 /\ log[r][2].call = "CreateOrUpdate")
    /\ [][\A r \in Res :
            (Stepped(r, "cu_check") /\ Answered(r, "Get", "ok")
               /\ NewCalls(r)[1].ID \notin {Nil, Some("")}) =>
                 /\ remote' = remote
                 /\ id'[r] = id[r]
                 /\ pc'[r] = "idle"]_vars

\* A Create refused because the name was taken.
C3_Witness ==
    \E r \in Res :
        /\ Finished(r, {"Create"})
        /\ C3_FoundInLog(r)
        /\ result[r] = "err_import_as_exists"
        /\ Exists(TheName)


----------------------------------------------------------------------------
\* C4 as stated: once a remote call of a handler fails (Not Found included),
\* the handler has returned an error and issued no further remote call.
C4_EveryFailureReturned ==
    \A r \in Res : \A i \in 1..Len(log[r]) :
        (log[r][i].call \in RemoteCalls /\ log[r][i].res \in {"error", "notfound"}) =>
            /\ pc[r] = "idle"
            /\ IsError(result[r])
            /\ \A j \in (i + 1)..Len(log[r]) : log[r][j].call \notin RemoteCalls

\* C4 as amended: a remote call that fails with anything but Not Found, and a
\* Not Found answer to the Get after CreateOrUpdate, ends the handler with an
\* error and is its last remote call; a Not Found answer to Read's Get or to
\* Delete ends the handler with success and is its last remote call; a Not
\* Found answer to the presence check of Create does not end the handler; and
\* no step of a handler issues its remote call twice.
C4_FailureReturnedExceptNotFound ==
    \A r \in Res : \A i \in 1..Len(log[r]) :
        LET e == log[r][i] IN
        e.call \in RemoteCalls =>
            /\ (e.res = "error" \/ (e.res = "notfound" /\ e.at = "cu_reread")) =>
                 /\ pc[r] = "idle"
                 /\ IsError(result[r])
                 /\ i = Len(log[r])
            /\ (e.res = "notfound" /\ e.at \in {"read", "delete"}) =>
                 /\ pc[r] = "idle"
                 /\ result[r] = "ok"
                 /\ \A j \in (i + 1)..Len(log[r]) : log[r][j].call \notin RemoteCalls
            /\ (e.res = "notfound" /\ e.at = "cu_check") =>
                 \/ pc[r] = "cu_write" /\ result[r] = "running"
                 \/ i < Len(log[r])
            /\ \A j \in 1..Len(log[r]) :
                 (j # i /\ log[r][j].call \in RemoteCalls) => log[r][j].at # e.at

\* A Create whose presence check answered Not Found and whose CreateOrUpdate failed.
C4_Witness ==
    \E r \in Res :
        /\ Finished(r, {"Create"})
        /\ log[r] = <<Entry("cu_check", "Get", "notfound", Nil),
                      Entry("cu_write", "CreateOrUpdate", "error", Nil)>>
        /\ result[r] = "err_creating_updating"

----------------------------------------------------------------------------
\* The steps and calls of a Create/Update that runs to the end, in order (the
\* last one is the SetId("") of a Read that finds the service gone).
C5_Order(r) ==
    (IF isNew[r] THEN << <<"cu_check", "Get">> >> ELSE << >>)
    \o << <<"cu_write", "CreateOrUpdate">>, <<"cu_reread", "Get">>,
          <<"cu_reread", "SetId">>, <<"read", "Get">>, <<"read", "SetId">> >>

\* C5: the calls of Create/Update come in the order presence-check Get (new
\* resource only), CreateOrUpdate, re-read Get, SetId, Read; the resource ID is
\* set only after CreateOrUpdate and the re-read Get succeeded and the re-read
\* carried an ID, and to exactly that ID; a failed CreateOrUpdate, a failed
\* re-read or an ID-less re-read returns an error and keeps the resource ID.
C5_IdSetInOrder ==
    /\ [](\A r \in Res : op[r] \in {"Create", "Update"} =>
            /\ Len(log[r]) <= Len(C5_Order(r))
            /\ \A i \in 1..Len(log[r]) :
                 /\ <<log[r][i].at, log[r][i].call>> = C5_Order(r)[i]
                 /\ (log[r][i].at = "cu_reread" /\ log[r][i].call = "SetId") =>
                      /\ i >= 3
                      /\ log[r][i - 2] = Entry("cu_write", "CreateOrUpdate", "ok", Nil)
                      /\ log[r][i - 1].res = "ok"
                      /\ log[r][i - 1].ID # Nil
                      /\ log[r][i].ID = log[r][i - 1].ID
                      /\ (pc[r] = "read" => id[r] = log[r][i].ID[1]))
    /\ [][\A r \in Res : pc[r] \in {"cu_check", "cu_write", "cu_reread"} =>
            /\ id'[r] # id[r] =>
                 /\ pc[r] = "cu_reread"
                 /\ Len(NewCalls(r)) = 2
                 /\ NewCalls(r)[1] = Entry("cu_reread", "Get", "ok", Some(id'[r]))
                 /\ NewCalls(r)[2] = Entry("cu_reread", "SetId", "ok", Some(id'[r]))
            /\ (pc[r] \in {"cu_write", "cu_reread"} /\ NewCalls(r) # <<>>
                  /\ (NewCalls(r)[1].res # "ok"
                        \/ (NewCalls(r)[1].ID = Nil /\ pc[r] = "cu_reread"))) =>
                 /\ pc'[r] = "idle"
                 /\ IsError(result'[r])
                 /\ id'[r] = id[r]]_vars

\* An Update of an imported instance that ran to the end and took the remote ID.
C5_Witness ==
    \E r \in Res :
        /\ Finished(r, {"Update"})
        /\ result[r] = "ok"
        /\ Len(log[r]) = 4
        /\ log[r][3] = Entry("cu_reread", "SetId", "ok", Some(TheId))
        /\ id[r] = TheId


----------------------------------------------------------------------------
\* What the remote linked service holds for the three attributes, empty when
\* it holds none.
C6_RemoteTenant(sql) == Deref(sql.TypeProperties.Tenant)

C6_RemoteRuntime(sql) ==
    IF sql.ConnectVia = Nil THEN "" ELSE Deref(sql.ConnectVia[1].ReferenceName)

C6_RemoteKeyVaultPassword(sql) ==
    LET pw == sql.TypeProperties.Password IN
    IF pw # Nil /\ pw[1].Type = TypeAzureKeyVaultSecret
    THEN <<[linked_service_name |-> Deref(pw[1].Store), secret_name |-> pw[1].SecretName]>>
    ELSE <<>>

\* C6: after a successful Read that got the linked service, tenant_id,
\* integration_runtime_name and key_vault_password of the state equal what the
\* remote holds, and are empty where the remote holds none, whatever the state
\* held before.
C6_ReadMirrorsRemote ==
    [][\A r \in Res :
          (Stepped(r, "read") /\ Answered(r, "Get", "ok") /\ result'[r] = "ok") =>
            /\ attrs'[r].tenant_id = C6_RemoteTenant(remote[TheName])
            /\ attrs'[r].integration_runtime_name = C6_RemoteRuntime(remote[TheName])
            /\ attrs'[r].key_vault_password = C6_RemoteKeyVaultPassword(remote[TheName])]_vars

----------------------------------------------------------------------------
\* C7: CreateOrUpdate carries a service principal ID and key exactly when
\* use_managed_identity is false; Read sets use_managed_identity to false
\* exactly when the remote holds a service principal ID; and a Create/Update
\* whose Read finds the request as it was sent ends with use_managed_identity
\* equal to the configured value.
C7_AuthModeRoundTrip ==
    [][\A r \in Res :
          /\ (Stepped(r, "cu_write") /\ Answered(r, "CreateOrUpdate", "ok")) =>
               LET tp == remote'[TheName].TypeProperties IN
               /\ (tp.ServicePrincipalID # Nil) <=> ~cfg[r].use_managed_identity
               /\ (tp.ServicePrincipalKey # Nil) <=> ~cfg[r].use_managed_identity
          /\ (Stepped(r, "read") /\ Answered(r, "Get", "ok") /\ result'[r] = "ok") =>
               LET tp == remote[TheName].TypeProperties IN
               /\ attrs'[r].use_managed_identity = (tp.ServicePrincipalID = Nil)
               /\ (op[r] \in {"Create", "Update"}
                   /\ remote[TheName] = azureSQLDatabaseLinkedService(cfg[r])) =>
                    attrs'[r].use_managed_identity = cfg[r].use_managed_identity]_vars

\* A Create with neither managed identity nor a service principal configured,
\* read back from a remote that holds what was sent.
C7_Witness ==
    \E r \in Res :
        /\ Finished(r, {"Create"})
        /\ result[r] = "ok"
        /\ Logged(r, "read", "Get", "ok")
        /\ ~cfg[r].use_managed_identity
        /\ cfg[r].service_principal_id = ""
        /\ Exists(TheName)
        /\ remote[TheName] = azureSQLDatabaseLinkedService(cfg[r])
        /\ attrs[r].use_managed_identity = FALSE

----------------------------------------------------------------------------
\* The attributes Read sets after the classification of the response.
C8_TypeSpecific ==
    {"tenant_id", "service_principal_id", "use_managed_identity", "additional_properties",
     "description", "key_vault_password", "annotations", "parameters",
     "integration_runtime_name"}

\* C8: a Read that gets a linked service of another type returns the
\* classification error, keeps the resource ID, and has written name,
\* resource_group_name and data_factory_name and no other attribute.
C8_OtherTypeWritesHeadOnly ==
    [][\A r \in Res :
          (Stepped(r, "read") /\ Answered(r, "Get", "ok")
             /\ remote[TheName].Type # TypeAzureSQLDatabase) =>
            /\ result'[r] = "err_classifying"
            /\ id'[r] = id[r]
            /\ written'[r] = written[r] \cup {"name", "resource_group_name", "data_factory_name"}
            /\ \A a \in C8_TypeSpecific : attrs'[r][a] = attrs[r][a]]_vars

\* A Read of an instance holding configured attributes met another type.
C8_Witness ==
    \E r \in Res :
        /\ Finished(r, {"Read"})
        /\ result[r] = "err_classifying"
        /\ written[r] = {"name", "resource_group_name", "data_factory_name"}
        /\ attrs[r].tenant_id = "tenant_cfg"
        /\ attrs[r].description = "desc_cfg"
        /\ id[r] = TheId

----------------------------------------------------------------------------
\* C10: no path through Read writes connection_string or service_principal_key,
\* so after the Read that ends Create/Update they are the configured values.
C10_ReadKeepsSecrets ==
    [][\A r \in Res :
          Stepped(r, "read") =>
            /\ attrs'[r].connection_string = attrs[r].connection_string
            /\ attrs'[r].service_principal_key = attrs[r].service_principal_key
            /\ written'[r] \cap {"connection_string", "service_principal_key"} = {}
            /\ op[r] \in {"Create", "Update"} =>
                 /\ attrs'[r].connection_string = cfg[r].connection_string
                 /\ attrs'[r].service_principal_key = cfg[r].service_principal_key]_vars

\* A Create whose Read got a record another actor wrote, secrets included.
C10_Witness ==
    \E r \in Res :
        /\ Finished(r, {"Create"})
        /\ result[r] = "ok"
        /\ attrs[r].description = "desc_ext"
        /\ attrs[r].service_principal_id = "sp_ext"
        /\ attrs[r].connection_string = "cs_cfg"
        /\ attrs[r].service_principal_key = cfg[r].service_principal_key


----------------------------------------------------------------------------
\* C9 as stated: the presence check and the write of a Create act as one
\* atomic step, so a Create whose presence check answered Not Found never
\* issues its CreateOrUpdate on a name that exists by then.
C9_CheckAndWriteAtomic ==
    [][\A r \in Res :
          (isNew[r] /\ Stepped(r, "cu_write") /\ Answered(r, "CreateOrUpdate", "ok")
             /\ Logged(r, "cu_check", "Get", "notfound")) =>
            ~Exists(TheName)]_vars

\* C9 as amended: a Create goes from its presence check on to CreateOrUpdate
\* only when, at the moment of the check, the name was absent (Not Found) or
\* the response carried no non-empty ID; nothing holds from the check to the write.
C9_WriteOnlyAfterAbsentCheck ==
    /\ [][\A r \in Res :
            (Stepped(r, "cu_check") /\ pc'[r] = "cu_write") =>
               \/ Answered(r, "Get", "notfound") /\ ~Exists(TheName)
               \/ Answered(r, "Get", "ok") /\ NewCalls(r)[1].ID \in {Nil, Some("")}]_vars
    /\ [](\A r \in Res :
            (isNew[r] /\ \E i \in 1..Len(log[r]) : log[r][i].call = "CreateOrUpdate") =>
               /\ log[r][1].at = "cu_check"
               /\ \/ log[r][1].res = "notfound"
                  \/ log[r][1].res = "ok" /\ log[r][1].ID \in {Nil, Some("")})

\* Two Creates that both passed the presence check with Not Found and both
\* wrote, the second over a linked service that differs from its own.
C9_Witness ==
    /\ \A r \in Res :
          /\ op[r] = "Create"
          /\ Logged(r, "cu_check", "Get", "notfound")
          /\ Logged(r, "cu_write", "CreateOrUpdate", "ok")
    /\ cfg["d1"] # cfg["d2"]

====
